---- MODULE Spec2Model ----
(***************************************************************************)
(* Model of binrw_derive/src/backtrace/syntax_highlighting.rs:             *)
(* get_syntax_highlights walks a field's type and attribute expressions    *)
(* with a syn Visitor, appends the field's keyword spans and sorts every   *)
(* line's highlights by start column.                                      *)
(***************************************************************************)
EXTENDS Integers, Sequences, FiniteSets, TLC

VARIABLES field, visit, syntax_info, pc

vars == <<field, visit, syntax_info, pc>>

(* ---------------------------------------------------------------------- *)
(* Bounds                                                                  *)
(* ---------------------------------------------------------------------- *)

\* longest keyword-span list of an enumerated field
MaxKeywordSpans == 2

\* most named-argument token streams of an enumerated field
MaxNamedStreams == 2

(* ---------------------------------------------------------------------- *)
(* Data: Option, Span, Ident, Color, SyntaxInfo                            *)
(* ---------------------------------------------------------------------- *)

None == [some |-> FALSE]

Some(x) == [some |-> TRUE, value |-> x]

\* proc_macro2::Span as seen through .start() / .end()
Span(sl, sc, el, ec) ==
    [start |-> [line |-> sl, column |-> sc], end |-> [line |-> el, column |-> ec]]

Ident(name, span) == [name |-> name, span |-> span]

Color == {"String", "Char", "Number", "Keyword", "Function"}

\* one entry of LineSyntax.highlights: (Range<usize>, Color)
Highlight(start, end, color) == [start |-> start, end |-> end, color |-> color]

\* SyntaxInfo.lines: HashMap<usize, LineSyntax>, a function whose domain is
\* the set of keys; each value is the line's highlights vector
EmptySyntaxInfo == [l \in {} |-> <<>>]

\* lines.entry(line).or_insert_with(LineSyntax::default)
Entry(lines, line) ==
    IF line \in DOMAIN lines THEN lines ELSE lines @@ (line :> <<>>)

\* lines.entry(line).or_insert_with(..).highlights.push(h)
Push(lines, line, h) ==
    [Entry(lines, line) EXCEPT ![line] = Append(@, h)]

(* ---------------------------------------------------------------------- *)
(* Keyword classifier                                                      *)
(* ---------------------------------------------------------------------- *)

KeywordNames ==
    { "Vec", "u8", "u16", "u32", "u64", "u128", "i8", "i16", "i32", "i64",
      "i128", "char", "String", "Default", "Self", "super", "Drop", "Send",
      "Sync", "Sized", "Fn", "FnMut", "FnOnce", "From", "Into", "Iterator",
      "IntoIterator", "Ord", "Eq", "PartialEq", "Box", "ToString", "usize",
      "isize", "f32", "f64", "str",
      "align_after", "align_before", "args", "args_raw", "assert", "big",
      "binread", "br", "brw", "binwrite", "bw", "calc", "count", "default",
      "deref_now", "ignore", "import", "import_raw", "is_big", "is_little",
      "little", "magic", "map", "offset", "offset_after", "pad_after",
      "pad_before", "pad_size_to", "parse_with", "postprocess_now",
      "pre_assert", "repr", "restore_position", "return_all_errors",
      "return_unexpected_error", "seek_before", "temp", "try_map",
      "write_with" }

is_keyword_ident(ident) == ident.name \in KeywordNames

(* ---------------------------------------------------------------------- *)
(* Span visitor                                                            *)
(* ---------------------------------------------------------------------- *)

LitColor(kind) ==
    CASE kind \in {"Str", "ByteStr"} -> "String"
      [] kind \in {"Byte", "Char"} -> "Char"
      [] kind \in {"Int", "Float", "Bool"} -> "Number"

\* mutant: the same-line test is missing
VisitLit_NoLineCheck(lines, lit) ==
    LET start == lit.span.start
        end == lit.span.end
        entry == Entry(lines, start.line)
    IN  IF lit.kind = "Verbatim"
        THEN entry
        ELSE Push(lines, start.line,
                  Highlight(start.column, end.column, LitColor(lit.kind)))

\* mutant: byte and char literals are coloured as strings
VisitLit_CharAsString(lines, lit) ==
    LET start == lit.span.start
        end == lit.span.end
    IN  IF start.line = end.line
        THEN IF lit.kind = "Verbatim"
             THEN Entry(lines, start.line)
             ELSE Push(lines, start.line,
                       Highlight(start.column, end.column,
                                 IF lit.kind \in {"Byte", "Char"}
                                 THEN "String" ELSE LitColor(lit.kind)))
        ELSE lines

\* Visitor::visit_lit.  The line's entry is created before the match on the
\* literal kind, so the early return for Verbatim leaves the entry behind.
VisitLit(lines, lit) ==
    LET start == lit.span.start
        end == lit.span.end
    IN  IF start.line = end.line
        THEN LET entry == Entry(lines, start.line)
             IN  IF lit.kind = "Verbatim"
                 THEN entry
                 ELSE [entry EXCEPT ![start.line] =
                          Append(@, Highlight(start.column, end.column,
                                              LitColor(lit.kind)))]
        ELSE lines

\* mutant: the highlight ends at the start column
VisitIdent_EmptyRange(lines, ident) ==
    IF is_keyword_ident(ident)
    THEN Push(lines, ident.span.start.line,
              Highlight(ident.span.start.column, ident.span.start.column,
                        "Keyword"))
    ELSE lines

\* Visitor::visit_ident
VisitIdent(lines, ident) ==
    IF is_keyword_ident(ident)
    THEN Push(lines, ident.span.start.line,
              Highlight(ident.span.start.column, ident.span.end.column,
                        "Keyword"))
    ELSE lines

(* ---------------------------------------------------------------------- *)
(* Syntax tree (the syn node kinds the model enumerates)                   *)
(* ---------------------------------------------------------------------- *)

Lit(kind, span) == [kind |-> kind, span |-> span]

NoArguments == [kind |-> "None"]

AngleBracketed(args) == [kind |-> "AngleBracketed", args |-> args]

GenericType(ty) == [kind |-> "Type", ty |-> ty]

GenericConst(expr) == [kind |-> "Const", expr |-> expr]

PathSegment(ident, arguments) == [ident |-> ident, arguments |-> arguments]

Path(leading_colon, segments) ==
    [leading_colon |-> leading_colon, segments |-> segments]

Attribute(path) == [path |-> path]

TypePath(path) == [node |-> "Path", path |-> path]

TypeArray(elem, len) == [node |-> "Array", elem |-> elem, len |-> len]

ExprLit(lit) == [node |-> "Lit", lit |-> lit]

ExprPath(path) == [node |-> "Path", path |-> path]

ExprParen(expr) == [node |-> "Paren", expr |-> expr]

ExprBinary(left, right) == [node |-> "Binary", left |-> left, right |-> right]

ExprCall(attrs, func, args) ==
    [node |-> "Call", attrs |-> attrs, func |-> func, args |-> args]

ExprMethodCall(attrs, receiver, method, turbofish, args) ==
    [node |-> "MethodCall", attrs |-> attrs, receiver |-> receiver,
     method |-> method, turbofish |-> turbofish, args |-> args]

\* syn::Path::get_ident: the single identifier of an unqualified path
get_ident(path) ==
    IF /\ ~path.leading_colon
       /\ Len(path.segments) = 1
       /\ path.segments[1].arguments.kind = "None"
    THEN Some(path.segments[1].ident)
    ELSE None

\* a node waiting to be walked
Item(kind, node) == [item |-> kind, node |-> node]

Items(kind, nodes) == [i \in 1..Len(nodes) |-> Item(kind, nodes[i])]

\* what one visit method does: the table after its own push, and the
\* children it hands to the walk, in order
Visited(lines, walk) == [lines |-> lines, walk |-> walk]

\* visit::visit_path: every segment in turn
VisitPath(lines, path) == Visited(lines, Items("PathSegment", path.segments))

\* visit::visit_path_segment: the identifier, then the arguments
VisitPathSegment(lines, segment) ==
    Visited(lines,
            <<Item("Ident", segment.ident)>>
               \o (IF segment.arguments.kind = "AngleBracketed"
                   THEN Items("GenericArgument", segment.arguments.args)
                   ELSE <<>>))

\* visit::visit_generic_argument / visit_generic_method_argument
VisitGenericArgument(lines, arg) ==
    Visited(lines,
            IF arg.kind = "Type"
            THEN <<Item("Type", arg.ty)>>
            ELSE <<Item("Expr", arg.expr)>>)

\* visit::visit_attribute: only the attribute's path is walked
VisitAttribute(lines, attr) == Visited(lines, <<Item("Path", attr.path)>>)

\* visit::visit_type on a path or an array type
VisitTypeNode(lines, ty) ==
    Visited(lines,
            IF ty.node = "Path"
            THEN <<Item("Path", ty.path)>>
            ELSE <<Item("Type", ty.elem), Item("Expr", ty.len)>>)

\* visit::visit_method_turbofish on call.turbofish
VisitTurbofish(turbofish) ==
    IF turbofish.some
    THEN Items("GenericArgument", turbofish.value.args)
    ELSE <<>>

\* mutant: the method name is also visited as an identifier, as syn's
\* default walk of a method call would do
VisitExprMethodCall_VisitsName(lines, call) ==
    LET ident == call.method
    IN  Visited(Push(lines, ident.span.start.line,
                     Highlight(ident.span.start.column,
                               ident.span.end.column, "Function")),
                Items("Attribute", call.attrs)
                   \o <<Item("Expr", call.receiver), Item("Ident", ident)>>
                   \o VisitTurbofish(call.turbofish)
                   \o Items("Expr", call.args))

\* Visitor::visit_expr_method_call
VisitExprMethodCall(lines, call) ==
    LET ident == call.method
    IN  Visited(Push(lines, ident.span.start.line,
                     Highlight(ident.span.start.column,
                               ident.span.end.column, "Function")),
                Items("Attribute", call.attrs)
                   \o <<Item("Expr", call.receiver)>>
                   \o VisitTurbofish(call.turbofish)
                   \o Items("Expr", call.args))

\* Visitor::visit_expr_call: the callee expression is walked after the
\* Function highlight is pushed, so a bare callee is visited as a path too
VisitExprCall(lines, call) ==
    LET name == IF call.func.node = "Path"
                THEN get_ident(call.func.path)
                ELSE None
        pushed == IF name.some
                  THEN Push(lines, name.value.span.start.line,
                            Highlight(name.value.span.start.column,
                                      name.value.span.end.column, "Function"))
                  ELSE lines
    IN  Visited(pushed,
                Items("Attribute", call.attrs)
                   \o <<Item("Expr", call.func)>>
                   \o Items("Expr", call.args))

\* visit::visit_expr: dispatch on the expression kind
VisitExprNode(lines, expr) ==
    CASE expr.node = "Lit" -> Visited(lines, <<Item("Lit", expr.lit)>>)
      [] expr.node = "Path" -> Visited(lines, <<Item("Path", expr.path)>>)
      [] expr.node = "Paren" -> Visited(lines, <<Item("Expr", expr.expr)>>)
      [] expr.node = "Binary" ->
            Visited(lines, <<Item("Expr", expr.left), Item("Expr", expr.right)>>)
      [] expr.node = "Call" -> VisitExprCall(lines, expr)
      [] expr.node = "MethodCall" -> VisitExprMethodCall(lines, expr)

\* the Visit method of one node
VisitNode(lines, it) ==
    CASE it.item = "Lit" -> Visited(VisitLit(lines, it.node), <<>>)
      [] it.item = "Ident" -> Visited(VisitIdent(lines, it.node), <<>>)
      [] it.item = "Expr" -> VisitExprNode(lines, it.node)
      [] it.item = "Type" -> VisitTypeNode(lines, it.node)
      [] it.item = "Path" -> VisitPath(lines, it.node)
      [] it.item = "PathSegment" -> VisitPathSegment(lines, it.node)
      [] it.item = "GenericArgument" -> VisitGenericArgument(lines, it.node)
      [] it.item = "Attribute" -> VisitAttribute(lines, it.node)

RECURSIVE Walk(_, _)
\* the depth-first walk: a node's children are walked, in order, before the
\* nodes that follow it
Walk(lines, todo) ==
    IF todo = <<>>
    THEN lines
    ELSE LET v == VisitNode(lines, Head(todo))
         IN  Walk(v.lines, v.walk \o Tail(todo))

\* visit_type(&mut visit, ty)
VisitType(lines, ty) == Walk(lines, <<Item("Type", ty)>>)

\* visit::visit_expr(visitor, &expr)
VisitExpr(lines, expr) == Walk(lines, <<Item("Expr", expr)>>)

(* ---------------------------------------------------------------------- *)
(* Attribute expression extractor                                          *)
(* ---------------------------------------------------------------------- *)

\* a token stream, characterised by what syn::parse2 makes of it: it
\* returns Err, it returns Ok(expr), or it panics inside syn because the
\* stream holds a literal token syn does not recognise (such as c"x")
BadTokens == [ok |-> FALSE, panics |-> FALSE]

PanicTokens == [ok |-> FALSE, panics |-> TRUE]

GoodTokens(expr) == [ok |-> TRUE, panics |-> FALSE, expr |-> expr]

\* a named-argument token stream that parses as an ArgList
GoodArgList(list) == [ok |-> TRUE, panics |-> FALSE, list |-> list]

\* crate::parser::meta_types::FieldValue
FieldValue(ident, expr) == [ident |-> ident, expr |-> expr]

\* the visitor while visit_expr_attributes runs: its table, and whether a
\* panic is unwinding the call
Running(lines) == [lines |-> lines, panicked |-> FALSE]

\* macro visit!: parse the stream as an expression, walk it when it parses;
\* nothing catches a panic of the parser
Visit(visitor, tokens) ==
    IF visitor.panicked
    THEN visitor
    ELSE IF tokens.panics
    THEN [visitor EXCEPT !.panicked = TRUE]
    ELSE IF tokens.ok
    THEN [visitor EXCEPT !.lines = VisitExpr(@, tokens.expr)]
    ELSE visitor

RECURSIVE VisitOptions(_, _)
RECURSIVE VisitTokenList(_, _)
RECURSIVE VisitFieldValues(_, _)
RECURSIVE VisitNamed(_, _)
RECURSIVE VisitAssertions(_, _)

\* macro spans_from_exprs!: each populated Option<TokenStream> in turn
VisitOptions(visitor, options) ==
    IF options = <<>>
    THEN visitor
    ELSE VisitOptions(IF Head(options).some
                      THEN Visit(visitor, Head(options).value)
                      ELSE visitor,
                      Tail(options))

\* PassedArgs::List
VisitTokenList(visitor, args) ==
    IF args = <<>>
    THEN visitor
    ELSE VisitTokenList(Visit(visitor, Head(args)), Tail(args))

\* the expressions of one parsed ArgList
VisitFieldValues(lines, list) ==
    IF list = <<>>
    THEN lines
    ELSE VisitFieldValues(IF Head(list).expr.some
                          THEN VisitExpr(lines, Head(list).expr.value)
                          ELSE lines,
                          Tail(list))

\* PassedArgs::Named
VisitNamed(visitor, args) ==
    IF args = <<>>
    THEN visitor
    ELSE VisitNamed(
             IF visitor.panicked
             THEN visitor
             ELSE IF Head(args).panics
             THEN [visitor EXCEPT !.panicked = TRUE]
             ELSE IF Head(args).ok
             THEN [visitor EXCEPT
                      !.lines = VisitFieldValues(@, Head(args).list)]
             ELSE visitor,
             Tail(args))

\* field.assertions: the condition, then the message or error expression
VisitAssertions(visitor, assertions) ==
    IF assertions = <<>>
    THEN visitor
    ELSE LET first == Head(assertions)
             afterCond == Visit(visitor, first.condition)
             afterErr == IF first.consequent.some
                         THEN Visit(afterCond, first.consequent.value.err)
                         ELSE afterCond
         IN  VisitAssertions(afterErr, Tail(assertions))

\* if let Some(tokens) = field.<slot>.clone() { visit!(tokens) }
VisitOption(visitor, option) ==
    IF option.some THEN Visit(visitor, option.value) ELSE visitor

\* field.if_cond: the condition, then the alternate
VisitIfCond(visitor, if_cond) ==
    IF if_cond.some
    THEN Visit(Visit(visitor, if_cond.value.condition), if_cond.value.alternate)
    ELSE visitor

\* if let CondEndian::Cond(_, expr) = &field.endian
VisitEndian(visitor, endian) ==
    IF endian.kind = "Cond" THEN Visit(visitor, endian.expr) ELSE visitor

\* if let Map::Map(expr) | Map::Try(expr) = field.map.clone()
VisitMap(visitor, map) ==
    IF map.kind \in {"Map", "Try"} THEN Visit(visitor, map.expr) ELSE visitor

\* match &field.args
VisitArgs(visitor, args) ==
    CASE args.kind = "List" -> VisitTokenList(visitor, args.args)
      [] args.kind = "Tuple" -> Visit(visitor, args.expr)
      [] args.kind = "Named" -> VisitNamed(visitor, args.args)
      [] args.kind = "None" -> visitor

\* if let ReadMode::Calc(expr) = &field.read_mode
VisitReadMode(visitor, read_mode) ==
    IF read_mode.kind = "Calc" THEN Visit(visitor, read_mode.expr) ELSE visitor

\* visit_expr_attributes
VisitExprAttributes(visitor, f) ==
    LET a1 == VisitOptions(visitor,
                  << f.count, f.offset, f.pad_before, f.pad_after,
                     f.align_before, f.align_after, f.seek_before,
                     f.pad_size_to >>)
        a2 == VisitOption(a1, f.offset_after)
        a3 == VisitIfCond(a2, f.if_cond)
        a4 == VisitOption(a3, f.magic)
        a5 == VisitEndian(a4, f.endian)
        a6 == VisitMap(a5, f.map)
        a7 == VisitArgs(a6, f.args)
        a8 == VisitReadMode(a7, f.read_mode)
    IN  VisitAssertions(a8, f.assertions)

(* ---------------------------------------------------------------------- *)
(* Highlight aggregator                                                    *)
(* ---------------------------------------------------------------------- *)

RECURSIVE AppendKeywordSpans_Dedup(_, _)
\* mutant: a span whose highlight is already on the line is not added again
AppendKeywordSpans_Dedup(lines, spans) ==
    IF spans = <<>>
    THEN lines
    ELSE LET sp == Head(spans)
             h == Highlight(sp.start.column, sp.end.column, "Keyword")
             entry == Entry(lines, sp.start.line)
             seen == \E i \in DOMAIN entry[sp.start.line] :
                        /\ entry[sp.start.line][i].start = h.start
                        /\ entry[sp.start.line][i].end = h.end
         IN  AppendKeywordSpans_Dedup(
                 IF seen THEN entry ELSE Push(lines, sp.start.line, h),
                 Tail(spans))

RECURSIVE AppendSpans(_, _)
AppendSpans(lines, spans) ==
    IF spans = <<>>
    THEN lines
    ELSE AppendSpans(Push(lines, Head(spans).start.line,
                          Highlight(Head(spans).start.column,
                                    Head(spans).end.column, "Keyword")),
                     Tail(spans))

\* get_syntax_highlights, the loop over field.keyword_spans
AppendKeywordSpans(lines, spans) == AppendSpans(lines, spans)

\* number of leading elements of a sorted vector that stay before x
InsertPoint(sorted, x) ==
    Cardinality({i \in DOMAIN sorted : sorted[i].start <= x.start})

\* mutant: an element is placed before the elements of equal key
InsertByKey_Unstable(sorted, x) ==
    LET k == Cardinality({i \in DOMAIN sorted : sorted[i].start < x.start})
    IN  SubSeq(sorted, 1, k) \o <<x>> \o SubSeq(sorted, k + 1, Len(sorted))

\* one insertion of the stable sort: x goes after every element whose key
\* is not greater than its own
InsertByKey(sorted, x) ==
    LET k == InsertPoint(sorted, x)
    IN  SubSeq(sorted, 1, k) \o <<x>> \o SubSeq(sorted, k + 1, Len(sorted))

RECURSIVE SortFrom(_, _)
SortFrom(sorted, rest) ==
    IF rest = <<>>
    THEN sorted
    ELSE SortFrom(InsertByKey(sorted, Head(rest)), Tail(rest))

\* mutant: the vector is left in discovery order
SortByKey_Unsorted(highlights) == highlights

\* line.highlights.sort_by_key(|x| x.0.start), a stable sort
SortByKey(highlights) == SortFrom(<<>>, highlights)

\* syntax_info.lines.values_mut().for_each(...)
SortLines(lines) == [l \in DOMAIN lines |-> SortByKey(lines[l])]

(* ---------------------------------------------------------------------- *)
(* Field descriptors                                                       *)
(* ---------------------------------------------------------------------- *)

\* a StructField with the given type and no attribute at all
EmptyField(ty) ==
    [ty |-> ty,
     count |-> None, offset |-> None, pad_before |-> None,
     pad_after |-> None, align_before |-> None, align_after |-> None,
     seek_before |-> None, pad_size_to |-> None, offset_after |-> None,
     if_cond |-> None, magic |-> None,
     endian |-> [kind |-> "Fixed"],
     map |-> [kind |-> "None"],
     args |-> [kind |-> "None"],
     read_mode |-> [kind |-> "Normal"],
     assertions |-> <<>>,
     keyword_spans |-> <<>>]

\* a bare single-identifier path on one line
BarePath(name, line, from, to) ==
    Path(FALSE, <<PathSegment(Ident(name, Span(line, from, line, to)),
                              NoArguments)>>)

Name(name, line, from, to) == ExprPath(BarePath(name, line, from, to))

IntLit(line, from, to) == ExprLit(Lit("Int", Span(line, from, line, to)))

\* the literal kinds syn's parser produces; it never builds Lit::Verbatim
LitKinds ==
    {"Str", "ByteStr", "Byte", "Char", "Int", "Float", "Bool"}

\* every parsed literal kind, once on a single line and once across two
\* lines
LitExprs ==
    { ExprLit(Lit(k, sp)) :
        k \in LitKinds, sp \in {Span(2, 10, 2, 14), Span(2, 10, 3, 2)} }

\* Vec(x)
CallVecX ==
    ExprCall(<<>>, Name("Vec", 2, 10, 13), <<Name("x", 2, 14, 15)>>)

\* foo.bar(count)
MethodFooBar ==
    ExprMethodCall(<<>>, Name("foo", 2, 10, 13),
                   Ident("bar", Span(2, 14, 2, 17)), None,
                   <<Name("count", 2, 18, 23)>>)

\* Vec.map::<u8>(offset, 1)
MethodKeywordName ==
    ExprMethodCall(<<>>, Name("Vec", 2, 10, 13),
                   Ident("map", Span(2, 14, 2, 17)),
                   Some([args |-> <<GenericType(
                                       TypePath(BarePath("u8", 2, 20, 22)))>>]),
                   <<Name("offset", 2, 24, 30), IntLit(2, 32, 33)>>)

OtherExprs ==
    { Name("count", 2, 10, 15),
      Name("x", 2, 10, 11),
      \* an identifier carrying a span that ends on the next line
      ExprPath(Path(FALSE, <<PathSegment(Ident("u8", Span(2, 10, 3, 1)),
                                         NoArguments)>>)),
      CallVecX,
      \* Vec(u8, 1)
      ExprCall(<<>>, Name("Vec", 2, 10, 13),
               <<Name("u8", 2, 14, 16), IntLit(2, 18, 19)>>),
      \* foo(x)
      ExprCall(<<>>, Name("foo", 2, 10, 13), <<Name("x", 2, 14, 15)>>),
      \* Vec::new(1)
      ExprCall(<<>>,
               ExprPath(Path(FALSE,
                   <<PathSegment(Ident("Vec", Span(2, 10, 2, 13)), NoArguments),
                     PathSegment(Ident("new", Span(2, 15, 2, 18)), NoArguments)>>)),
               <<IntLit(2, 19, 20)>>),
      \* ::map(x)
      ExprCall(<<>>,
               ExprPath(Path(TRUE,
                   <<PathSegment(Ident("map", Span(2, 12, 2, 15)), NoArguments)>>)),
               <<Name("x", 2, 16, 17)>>),
      \* Vec::<u8>(x)
      ExprCall(<<>>,
               ExprPath(Path(FALSE,
                   <<PathSegment(Ident("Vec", Span(2, 10, 2, 13)),
                         AngleBracketed(<<GenericType(
                             TypePath(BarePath("u8", 2, 16, 18)))>>))>>)),
               <<Name("x", 2, 20, 21)>>),
      \* (map)(x)
      ExprCall(<<>>, ExprParen(Name("map", 2, 11, 14)),
               <<Name("x", 2, 16, 17)>>),
      \* #[default] Vec(x)
      ExprCall(<<Attribute(BarePath("default", 2, 2, 9))>>,
               Name("Vec", 2, 11, 14), <<Name("x", 2, 15, 16)>>),
      \* Vec(count(1))
      ExprCall(<<>>, Name("Vec", 2, 10, 13),
               <<ExprCall(<<>>, Name("count", 2, 14, 19),
                          <<IntLit(2, 20, 21)>>)>>),
      MethodFooBar,
      MethodKeywordName,
      \* x.map(1).count()
      ExprMethodCall(<<>>,
          ExprMethodCall(<<>>, Name("x", 2, 10, 11),
                         Ident("map", Span(2, 12, 2, 15)), None,
                         <<IntLit(2, 16, 17)>>),
          Ident("count", Span(2, 19, 2, 24)), None, <<>>),
      \* foo.size::<4>(), the name on the line after the receiver
      ExprMethodCall(<<Attribute(BarePath("ignore", 2, 2, 8))>>,
          Name("foo", 2, 10, 13),
          Ident("size", Span(3, 5, 3, 9)),
          Some([args |-> <<GenericConst(IntLit(3, 12, 13))>>]), <<>>),
      \* 1 + count
      ExprBinary(IntLit(2, 10, 11), Name("count", 2, 14, 19)) }

Exprs == LitExprs \cup OtherExprs

TokenStreams == {BadTokens, PanicTokens} \cup {GoodTokens(e) : e \in Exprs}

\* the streams used where two slots are populated together
FewTokenStreams ==
    { BadTokens, PanicTokens, GoodTokens(Name("count", 2, 10, 15)),
      GoodTokens(CallVecX),
      GoodTokens(IntLit(2, 12, 13)) }

\* Foo
TypeFoo == TypePath(BarePath("Foo", 1, 4, 7))

\* Vec<u8>
TypeVecU8 ==
    TypePath(Path(FALSE,
        <<PathSegment(Ident("Vec", Span(1, 4, 1, 7)),
              AngleBracketed(<<GenericType(
                  TypePath(BarePath("u8", 1, 8, 10)))>>))>>))

Types ==
    { TypeFoo,
      TypeVecU8,
      TypePath(BarePath("u8", 1, 4, 6)),
      \* Box<Vec<u16>> with the innermost name on the next line
      TypePath(Path(FALSE,
          <<PathSegment(Ident("Box", Span(1, 4, 1, 7)),
                AngleBracketed(<<GenericType(TypePath(Path(FALSE,
                    <<PathSegment(Ident("Vec", Span(1, 8, 1, 11)),
                          AngleBracketed(<<GenericType(
                              TypePath(BarePath("u16", 2, 40, 43)))>>))>>)))>>))>>)),
      \* super::Vec<Vec<Foo>>
      TypePath(Path(FALSE,
          <<PathSegment(Ident("super", Span(1, 4, 1, 9)), NoArguments),
            PathSegment(Ident("Vec", Span(1, 11, 1, 14)),
                AngleBracketed(<<GenericType(TypePath(Path(FALSE,
                    <<PathSegment(Ident("Vec", Span(1, 15, 1, 18)),
                          AngleBracketed(<<GenericType(TypeFoo)>>))>>)))>>))>>)),
      \* [u8; 4]
      TypeArray(TypePath(BarePath("u8", 1, 5, 7)), IntLit(1, 9, 10)),
      \* an array type built by hand, its length a Lit::Verbatim alone on
      \* the second line
      TypeArray(TypePath(BarePath("u8", 1, 5, 7)),
                ExprLit(Lit("Verbatim", Span(2, 4, 2, 8)))) }

\* spans offered as keyword spans: on a callee, before an expression,
\* across two lines, on the type's first identifier
KeywordSpans ==
    { Span(2, 10, 2, 13), Span(2, 0, 2, 5), Span(2, 12, 3, 4),
      Span(1, 4, 1, 7) }

RECURSIVE SeqsUpTo(_, _)
\* the sequences over S of length at most n
SeqsUpTo(S, n) ==
    IF n = 0
    THEN {<<>>}
    ELSE LET shorter == SeqsUpTo(S, n - 1)
         IN  shorter \cup {Append(q, x) : q \in shorter, x \in S}

SlotNames ==
    { "count", "offset", "pad_before", "pad_after", "align_before",
      "align_after", "seek_before", "pad_size_to", "offset_after",
      "if_condition", "if_alternate", "magic", "endian", "map", "try_map",
      "args_list", "args_tuple", "calc", "assert_condition",
      "assert_message", "assert_error" }

\* the stream put in the other half of a compound slot: y
Filler == GoodTokens(Name("y", 3, 20, 21))

\* f with the named slot holding the stream ts
WithSlot(f, slot, ts) ==
    CASE slot = "count" -> [f EXCEPT !.count = Some(ts)]
      [] slot = "offset" -> [f EXCEPT !.offset = Some(ts)]
      [] slot = "pad_before" -> [f EXCEPT !.pad_before = Some(ts)]
      [] slot = "pad_after" -> [f EXCEPT !.pad_after = Some(ts)]
      [] slot = "align_before" -> [f EXCEPT !.align_before = Some(ts)]
      [] slot = "align_after" -> [f EXCEPT !.align_after = Some(ts)]
      [] slot = "seek_before" -> [f EXCEPT !.seek_before = Some(ts)]
      [] slot = "pad_size_to" -> [f EXCEPT !.pad_size_to = Some(ts)]
      [] slot = "offset_after" -> [f EXCEPT !.offset_after = Some(ts)]
      [] slot = "if_condition" ->
            [f EXCEPT !.if_cond =
                Some([condition |-> ts,
                      alternate |-> IF @.some THEN @.value.alternate
                                    ELSE Filler])]
      [] slot = "if_alternate" ->
            [f EXCEPT !.if_cond =
                Some([condition |-> IF @.some THEN @.value.condition
                                    ELSE Filler,
                      alternate |-> ts])]
      [] slot = "magic" -> [f EXCEPT !.magic = Some(ts)]
      [] slot = "endian" -> [f EXCEPT !.endian = [kind |-> "Cond", expr |-> ts]]
      [] slot = "map" -> [f EXCEPT !.map = [kind |-> "Map", expr |-> ts]]
      [] slot = "try_map" -> [f EXCEPT !.map = [kind |-> "Try", expr |-> ts]]
      [] slot = "args_list" ->
            [f EXCEPT !.args =
                [kind |-> "List",
                 args |-> IF @.kind = "List" THEN Append(@.args, ts)
                          ELSE <<ts>>]]
      [] slot = "args_tuple" ->
            [f EXCEPT !.args = [kind |-> "Tuple", expr |-> ts]]
      [] slot = "calc" ->
            [f EXCEPT !.read_mode = [kind |-> "Calc", expr |-> ts]]
      [] slot = "assert_condition" ->
            [f EXCEPT !.assertions =
                Append(@, [condition |-> ts, consequent |-> None])]
      [] slot = "assert_message" ->
            [f EXCEPT !.assertions =
                Append(@, [condition |-> Filler,
                           consequent |-> Some([kind |-> "Message",
                                                err |-> ts])])]
      [] slot = "assert_error" ->
            [f EXCEPT !.assertions =
                Append(@, [condition |-> Filler,
                           consequent |-> Some([kind |-> "Error",
                                                err |-> ts])])]

\* named-argument streams: unparsable, `a = c"x"`, `count = Vec(x)`,
\* `a, b = 1`
ArgListStreams ==
    { BadTokens, PanicTokens,
      GoodArgList(<<FieldValue(Ident("count", Span(2, 2, 2, 7)),
                               Some(CallVecX))>>),
      GoodArgList(<<FieldValue(Ident("a", Span(3, 2, 3, 3)), None),
                    FieldValue(Ident("b", Span(3, 5, 3, 6)),
                               Some(IntLit(3, 9, 10)))>>) }

FewSpanLists == {<<>>, <<Span(2, 10, 2, 13)>>}

SpanLists == SeqsUpTo(KeywordSpans, MaxKeywordSpans)

\* fields with a type and keyword spans only
TypeOnlyFields ==
    { [EmptyField(ty) EXCEPT !.keyword_spans = ks] :
        ty \in Types, ks \in SpanLists }

\* fields with the count slot populated and any keyword-span list
CountFields ==
    { [WithSlot(EmptyField(TypeVecU8), "count", ts)
          EXCEPT !.keyword_spans = ks] :
        ts \in TokenStreams, ks \in SpanLists }

\* fields with one slot populated
OneSlotFields ==
    { [WithSlot(EmptyField(TypeVecU8), slot, ts)
          EXCEPT !.keyword_spans = ks] :
        slot \in SlotNames, ts \in TokenStreams, ks \in FewSpanLists }

\* fields with two slots populated
TwoSlotFields ==
    { [WithSlot(WithSlot(EmptyField(TypeVecU8), s1, t1), s2, t2)
          EXCEPT !.keyword_spans = ks] :
        s1 \in SlotNames, s2 \in SlotNames,
        t1 \in FewTokenStreams, t2 \in FewTokenStreams,
        ks \in FewSpanLists }

\* fields passing named arguments, with or without a count
NamedArgFields ==
    { [EmptyField(TypeVecU8) EXCEPT
          !.count = c,
          !.args = [kind |-> "Named", args |-> named],
          !.keyword_spans = ks] :
        c \in {None, Some(GoodTokens(Name("count", 2, 10, 15)))},
        named \in SeqsUpTo(ArgListStreams, MaxNamedStreams),
        ks \in FewSpanLists }

Fields ==
    TypeOnlyFields \cup CountFields \cup OneSlotFields \cup TwoSlotFields
        \cup NamedArgFields

(* ---------------------------------------------------------------------- *)
(* get_syntax_highlights as a state machine                                *)
(* ---------------------------------------------------------------------- *)

Init ==
    /\ field \in Fields
    /\ visit = EmptySyntaxInfo
    /\ syntax_info = EmptySyntaxInfo
    /\ pc = "visit_type"

\* visit_type(&mut visit, &field.ty)
VisitTypeStep ==
    /\ pc = "visit_type"
    /\ visit' = VisitType(visit, field.ty)
    /\ pc' = "visit_expr_attributes"
    /\ UNCHANGED <<field, syntax_info>>

\* visit_expr_attributes(field, &mut visit) returns
VisitExprAttributesStep ==
    /\ pc = "visit_expr_attributes"
    /\ ~VisitExprAttributes(Running(visit), field).panicked
    /\ visit' = VisitExprAttributes(Running(visit), field).lines
    /\ pc' = "aggregate"
    /\ UNCHANGED <<field, syntax_info>>

\* visit_expr_attributes(field, &mut visit) panics inside syn::parse2: the
\* call unwinds, the visitor is dropped and no table is returned
VisitExprAttributesPanic ==
    /\ pc = "visit_expr_attributes"
    /\ VisitExprAttributes(Running(visit), field).panicked
    /\ visit' = EmptySyntaxInfo
    /\ pc' = "panicked"
    /\ UNCHANGED <<field, syntax_info>>

\* the rest of get_syntax_highlights: the visitor's table receives the
\* keyword spans, every line is sorted, the table is returned
AggregateStep ==
    /\ pc = "aggregate"
    /\ syntax_info' = SortLines(AppendKeywordSpans(visit, field.keyword_spans))
    /\ pc' = "done"
    /\ UNCHANGED <<field, visit>>

Next ==
    \/ VisitTypeStep
    \/ VisitExprAttributesStep
    \/ VisitExprAttributesPanic
    \/ AggregateStep

Spec == Init /\ [][Next]_vars

(* ---------------------------------------------------------------------- *)
(* Vocabulary of the properties                                            *)
(* ---------------------------------------------------------------------- *)

Done == pc = "done"

RECURSIVE SumOver(_, _)
SumOver(info, keys) ==
    IF keys = {}
    THEN 0
    ELSE LET k == CHOOSE x \in keys : TRUE
         IN  Len(info[k]) + SumOver(info, keys \ {k})

\* number of highlights in a table
Total(info) == SumOver(info, DOMAIN info)

\* number of highlights of a table on a line with the given range and colour
CountAt(info, line, start, end, color) ==
    IF line \in DOMAIN info
    THEN Cardinality({i \in DOMAIN info[line] :
                         info[line][i] = Highlight(start, end, color)})
    ELSE 0

\* the same for the range of a span, on the span's start line
CountAtSpan(info, span, color) ==
    CountAt(info, span.start.line, span.start.column, span.end.column, color)

\* number of highlights on the span's range whatever their colour
EntriesAtSpan(info, span) ==
    IF span.start.line \in DOMAIN info
    THEN Cardinality({i \in DOMAIN info[span.start.line] :
            /\ info[span.start.line][i].start = span.start.column
            /\ info[span.start.line][i].end = span.end.column})
    ELSE 0

SingleLine(span) == span.start.line = span.end.line

OptionSeq(o) == IF o.some THEN <<o.value>> ELSE <<>>

RECURSIVE AssertionStreams(_)
AssertionStreams(assertions) ==
    IF assertions = <<>>
    THEN <<>>
    ELSE <<Head(assertions).condition>>
            \o (IF Head(assertions).consequent.some
                THEN <<Head(assertions).consequent.value.err>>
                ELSE <<>>)
            \o AssertionStreams(Tail(assertions))

\* the expression token streams a field carries, in the order the slots
\* are listed by the extractor (named arguments apart)
PopulatedTokens(f) ==
    OptionSeq(f.count) \o OptionSeq(f.offset) \o OptionSeq(f.pad_before)
        \o OptionSeq(f.pad_after) \o OptionSeq(f.align_before)
        \o OptionSeq(f.align_after) \o OptionSeq(f.seek_before)
        \o OptionSeq(f.pad_size_to) \o OptionSeq(f.offset_after)
        \o (IF f.if_cond.some
            THEN <<f.if_cond.value.condition, f.if_cond.value.alternate>>
            ELSE <<>>)
        \o OptionSeq(f.magic)
        \o (IF f.endian.kind = "Cond" THEN <<f.endian.expr>> ELSE <<>>)
        \o (IF f.map.kind \in {"Map", "Try"} THEN <<f.map.expr>> ELSE <<>>)
        \o (CASE f.args.kind = "List" -> f.args.args
              [] f.args.kind = "Tuple" -> <<f.args.expr>>
              [] OTHER -> <<>>)
        \o (IF f.read_mode.kind = "Calc" THEN <<f.read_mode.expr>> ELSE <<>>)
        \o AssertionStreams(f.assertions)

\* the field's only attribute is one expression that parses
HasSoleExpr(f) ==
    /\ f.args.kind # "Named"
    /\ Len(PopulatedTokens(f)) = 1
    /\ PopulatedTokens(f)[1].ok

SoleExpr(f) == PopulatedTokens(f)[1].expr

\* the table the type annotation alone produces
TypeHighlights(f) == VisitType(EmptySyntaxInfo, f.ty)

IsBareName(e) ==
    /\ e.node = "Path"
    /\ ~e.path.leading_colon
    /\ Len(e.path.segments) = 1
    /\ e.path.segments[1].arguments.kind = "None"

BareName(e) == e.path.segments[1].ident

\* the colour the literal rule gives each kind of literal
LiteralColor(kind) ==
    IF kind \in {"Str", "ByteStr"} THEN "String"
    ELSE IF kind \in {"Byte", "Char"} THEN "Char"
    ELSE "Number"

\* an identifier or literal child is highlighted by the ordinary rules
OrdinaryHighlight(info, e) ==
    /\ (IsBareName(e) /\ BareName(e).name \in KeywordNames)
          => CountAtSpan(info, BareName(e).span, "Keyword") >= 1
    /\ (e.node = "Lit" /\ SingleLine(e.lit.span) /\ e.lit.kind # "Verbatim")
          => CountAtSpan(info, e.lit.span, LiteralColor(e.lit.kind)) >= 1

GenericOrdinaryHighlight(info, arg) ==
    IF arg.kind = "Type"
    THEN arg.ty.node = "Path" => OrdinaryHighlight(info, ExprPath(arg.ty.path))
    ELSE OrdinaryHighlight(info, arg.expr)

(* ---------------------------------------------------------------------- *)
(* C1                                                                      *)
(* ---------------------------------------------------------------------- *)

IsBareKeywordCall(e) ==
    /\ e.node = "Call"
    /\ IsBareName(e.func)
    /\ BareName(e.func).name \in KeywordNames

\* C1: when the only attribute expression of a field without keyword spans
\* is a call whose callee is a bare keyword identifier, the returned table
\* has exactly one Function highlight on the callee's span and no Keyword
\* highlight on that span.
C1_CallNameOverridesKeyword ==
    (/\ Done
     /\ field.keyword_spans = <<>>
     /\ HasSoleExpr(field)
     /\ IsBareKeywordCall(SoleExpr(field)))
    => LET callee == BareName(SoleExpr(field).func)
       IN  /\ CountAtSpan(syntax_info, callee.span, "Function") = 1
           /\ CountAtSpan(syntax_info, callee.span, "Keyword") = 0

(* ---------------------------------------------------------------------- *)
(* C2                                                                      *)
(* ---------------------------------------------------------------------- *)

\* C2: when the only attribute expression of a field without keyword spans
\* is a method call, the method name has exactly one highlight, coloured
\* Function, and the receiver, the turbofish arguments and the arguments
\* that are keyword identifiers or literals are highlighted as usual.
C2_MethodNameIsFunction ==
    (/\ Done
     /\ field.keyword_spans = <<>>
     /\ HasSoleExpr(field)
     /\ SoleExpr(field).node = "MethodCall")
    => LET call == SoleExpr(field)
       IN  /\ EntriesAtSpan(syntax_info, call.method.span) = 1
           /\ CountAtSpan(syntax_info, call.method.span, "Function") = 1
           /\ OrdinaryHighlight(syntax_info, call.receiver)
           /\ call.turbofish.some =>
                 \A i \in DOMAIN call.turbofish.value.args :
                    GenericOrdinaryHighlight(syntax_info,
                                             call.turbofish.value.args[i])
           /\ \A i \in DOMAIN call.args :
                 OrdinaryHighlight(syntax_info, call.args[i])

\* Vec.map::<u8>(offset, 1) was highlighted: a keyword method name with a
\* keyword receiver, turbofish and argument
C2_Witness ==
    /\ Done
    /\ field.keyword_spans = <<>>
    /\ HasSoleExpr(field)
    /\ SoleExpr(field) = MethodKeywordName
    /\ CountAtSpan(syntax_info, Span(2, 14, 2, 17), "Function") = 1
    /\ CountAtSpan(syntax_info, Span(2, 24, 2, 30), "Keyword") = 1

(* ---------------------------------------------------------------------- *)
(* C3                                                                      *)
(* ---------------------------------------------------------------------- *)

\* C3: in the returned table every line's highlights are in non-decreasing
\* order of start column.
C3_LinesSortedByStart ==
    Done => \A l \in DOMAIN syntax_info :
               \A i, j \in DOMAIN syntax_info[l] :
                  i < j => syntax_info[l][i].start <= syntax_info[l][j].start

\* a line was discovered out of order and has been returned
C3_Witness ==
    /\ Done
    /\ \E l \in DOMAIN visit :
          \E i, j \in DOMAIN visit[l] :
             i < j /\ visit[l][i].start > visit[l][j].start

(* ---------------------------------------------------------------------- *)
(* C4                                                                      *)
(* ---------------------------------------------------------------------- *)

Parses(ts) == ts.ok

DropOption(o) == IF o.some /\ ~o.value.ok THEN None ELSE o

RECURSIVE DropAssertions(_)
DropAssertions(assertions) ==
    IF assertions = <<>>
    THEN <<>>
    ELSE LET first == Head(assertions)
             errFails == first.consequent.some
                            /\ ~first.consequent.value.err.ok
             kept == IF errFails
                     THEN [first EXCEPT !.consequent = None]
                     ELSE first
         IN  (IF ~first.condition.ok /\ ~kept.consequent.some
              THEN <<>>
              ELSE <<kept>>) \o DropAssertions(Tail(assertions))

\* the field with every slot whose stream does not parse made absent; a
\* compound slot is made absent when none of its streams parses
DropFailing(f) ==
    [f EXCEPT
        !.count = DropOption(@), !.offset = DropOption(@),
        !.pad_before = DropOption(@), !.pad_after = DropOption(@),
        !.align_before = DropOption(@), !.align_after = DropOption(@),
        !.seek_before = DropOption(@), !.pad_size_to = DropOption(@),
        !.offset_after = DropOption(@),
        !.if_cond = IF @.some /\ ~@.value.condition.ok
                              /\ ~@.value.alternate.ok
                    THEN None ELSE @,
        !.magic = DropOption(@),
        !.endian = IF @.kind = "Cond" /\ ~@.expr.ok
                   THEN [kind |-> "Fixed"] ELSE @,
        !.map = IF @.kind \in {"Map", "Try"} /\ ~@.expr.ok
                THEN [kind |-> "None"] ELSE @,
        !.args = CASE @.kind \in {"List", "Named"} ->
                        [@ EXCEPT !.args = SelectSeq(@, Parses)]
                   [] @.kind = "Tuple" /\ ~@.expr.ok -> [kind |-> "None"]
                   [] OTHER -> @,
        !.read_mode = IF @.kind = "Calc" /\ ~@.expr.ok
                      THEN [kind |-> "Normal"] ELSE @,
        !.assertions = DropAssertions(@)]

\* the table get_syntax_highlights returns for a field none of whose
\* streams panics
GetSyntaxHighlights(f) ==
    SortLines(AppendKeywordSpans(
        VisitExprAttributes(Running(VisitType(EmptySyntaxInfo, f.ty)), f).lines,
        f.keyword_spans))

\* C4: get_syntax_highlights returns normally whatever stream fails to
\* parse, and the table it returns is the table of the same field with the
\* slots whose token stream does not parse made absent.
C4_FailingSlotIsSwallowed ==
    /\ pc # "panicked"
    /\ Done => syntax_info = GetSyntaxHighlights(DropFailing(field))

(* ---------------------------------------------------------------------- *)
(* C5                                                                      *)
(* ---------------------------------------------------------------------- *)

SameHighlight(a, b) ==
    /\ a.start.line = b.start.line
    /\ a.start.column = b.start.column
    /\ a.end.column = b.end.column

\* C5: every keyword span adds one Keyword highlight on its start line,
\* also on a range the visitor already recorded, so the table holds the
\* visitor's highlights plus one per keyword span.
C5_NoDeduplication ==
    Done =>
      /\ Total(syntax_info) = Total(visit) + Len(field.keyword_spans)
      /\ \A i \in DOMAIN field.keyword_spans :
            LET sp == field.keyword_spans[i]
            IN  CountAtSpan(syntax_info, sp, "Keyword")
                  = CountAtSpan(visit, sp, "Keyword")
                    + Cardinality({j \in DOMAIN field.keyword_spans :
                          SameHighlight(field.keyword_spans[j], sp)})

\* a keyword span repeats a range the traversal recorded and both
\* highlights are in the returned table
C5_Witness ==
    /\ Done
    /\ \E i \in DOMAIN field.keyword_spans :
          LET sp == field.keyword_spans[i]
          IN  /\ EntriesAtSpan(visit, sp) >= 1
              /\ EntriesAtSpan(syntax_info, sp) = EntriesAtSpan(visit, sp) + 1
              /\ CountAtSpan(syntax_info, sp, "Keyword") >= 1

(* ---------------------------------------------------------------------- *)
(* C6                                                                      *)
(* ---------------------------------------------------------------------- *)

\* C6: when the only attribute expression of a field without keyword spans
\* is a string, byte-string, byte, char, integer, float or boolean literal,
\* a single-line literal adds exactly one highlight, on its line, over
\* [start.column, end.column), in the colour of its kind, and a literal
\* that ends on another line adds nothing.
C6_LiteralRule ==
    (/\ Done
     /\ field.keyword_spans = <<>>
     /\ HasSoleExpr(field)
     /\ SoleExpr(field).node = "Lit"
     /\ SoleExpr(field).lit.kind # "Verbatim")
    => LET lit == SoleExpr(field).lit
       IN  IF SingleLine(lit.span)
           THEN /\ Total(syntax_info) = Total(TypeHighlights(field)) + 1
                /\ CountAtSpan(syntax_info, lit.span,
                               LiteralColor(lit.kind)) = 1
           ELSE /\ Total(syntax_info) = Total(TypeHighlights(field))
                /\ EntriesAtSpan(syntax_info, lit.span) = 0

\* a single-line char literal was highlighted
C6_Witness ==
    /\ Done
    /\ field.keyword_spans = <<>>
    /\ HasSoleExpr(field)
    /\ SoleExpr(field) = ExprLit(Lit("Char", Span(2, 10, 2, 14)))
    /\ CountAt(syntax_info, 2, 10, 14, "Char") = 1

(* ---------------------------------------------------------------------- *)
(* C7                                                                      *)
(* ---------------------------------------------------------------------- *)

\* C7 as stated: a keyword span that ends on another line than it starts
\* on leaves no highlight in the returned table.
C7_NoMultiLineSpanEmitted ==
    Done => \A i \in DOMAIN field.keyword_spans :
               SingleLine(field.keyword_spans[i])
                  \/ CountAtSpan(syntax_info, field.keyword_spans[i],
                                 "Keyword") = 0

LiteralColors == {"String", "Char", "Number"}

RECURSIVE CountColors(_, _, _)
CountColors(info, keys, colors) ==
    IF keys = {}
    THEN 0
    ELSE LET k == CHOOSE x \in keys : TRUE
         IN  Cardinality({i \in DOMAIN info[k] : info[k][i].color \in colors})
                + CountColors(info, keys \ {k}, colors)

\* number of String, Char and Number highlights in a table
LiteralHighlights(info) == CountColors(info, DOMAIN info, LiteralColors)

\* C7 amended: only literals are tested for lying on one line.  A literal
\* that ends on another line adds no String, Char or Number highlight;
\* every keyword span, and a keyword identifier whatever its span, is
\* highlighted on its start line over [start.column, end.column).
C7_OnlyLiteralsAreLineChecked ==
    Done =>
      /\ (HasSoleExpr(field) /\ SoleExpr(field).node = "Lit")
            => LiteralHighlights(syntax_info)
                 = LiteralHighlights(TypeHighlights(field))
                   + (IF SingleLine(SoleExpr(field).lit.span)
                         /\ SoleExpr(field).lit.kind # "Verbatim"
                      THEN 1 ELSE 0)
      /\ (HasSoleExpr(field) /\ IsBareName(SoleExpr(field))
            /\ BareName(SoleExpr(field)).name \in KeywordNames)
            => CountAtSpan(syntax_info, BareName(SoleExpr(field)).span,
                           "Keyword") >= 1
      /\ \A i \in DOMAIN field.keyword_spans :
            CountAtSpan(syntax_info, field.keyword_spans[i], "Keyword") >= 1

\* a literal ending on the next line was skipped while a keyword span
\* ending on the next line was highlighted
C7_Witness ==
    /\ Done
    /\ HasSoleExpr(field)
    /\ SoleExpr(field) = ExprLit(Lit("Str", Span(2, 10, 3, 2)))
    /\ \E i \in DOMAIN field.keyword_spans :
          /\ ~SingleLine(field.keyword_spans[i])
          /\ CountAtSpan(syntax_info, field.keyword_spans[i], "Keyword") = 1
    /\ LiteralHighlights(syntax_info) = 0

(* ---------------------------------------------------------------------- *)
(* C8                                                                      *)
(* ---------------------------------------------------------------------- *)

\* the elements of a highlight vector that start at a column
StartingAt(highlights, column) ==
    LET AtColumn(h) == h.start = column
    IN  SelectSeq(highlights, AtColumn)

\* the Keyword highlights of the keyword spans on a line, in list order
SpanHighlights(spans, line) ==
    LET OnLine(sp) == sp.start.line = line
        sel == SelectSeq(spans, OnLine)
    IN  [i \in 1..Len(sel) |->
            Highlight(sel[i].start.column, sel[i].end.column, "Keyword")]

LineOf(info, line) == IF line \in DOMAIN info THEN info[line] ELSE <<>>

RECURSIVE VisitParsed(_, _)
\* the streams that parse, walked one after the other
VisitParsed(lines, streams) ==
    IF streams = <<>>
    THEN lines
    ELSE VisitParsed(IF Head(streams).ok
                     THEN VisitExpr(lines, Head(streams).expr)
                     ELSE lines,
                     Tail(streams))

\* C8: on every line of the returned table the highlights that start at
\* one column are the traversal's highlights for that column in the order
\* of their discovery, followed by the keyword spans' highlights in list
\* order; the traversal discovers the type first and then the attribute
\* slots in extraction order.
C8_StableSort ==
    Done =>
      /\ \A l \in DOMAIN syntax_info :
            \A i \in DOMAIN syntax_info[l] :
               LET c == syntax_info[l][i].start
               IN  StartingAt(syntax_info[l], c)
                     = StartingAt(LineOf(visit, l), c)
                         \o StartingAt(SpanHighlights(field.keyword_spans, l), c)
      /\ field.args.kind # "Named"
            => visit = VisitParsed(TypeHighlights(field),
                                   PopulatedTokens(field))

\* a Function highlight and a keyword span's highlight start at the same
\* column and the Function highlight comes first
C8_Witness ==
    /\ Done
    /\ \E l \in DOMAIN syntax_info :
          \E i, j \in DOMAIN syntax_info[l] :
             /\ i < j
             /\ syntax_info[l][i].start = syntax_info[l][j].start
             /\ syntax_info[l][i].color = "Function"
             /\ syntax_info[l][j].color = "Keyword"
             /\ syntax_info[l][j].end # syntax_info[l][i].end
             /\ \E k \in DOMAIN field.keyword_spans :
                   /\ field.keyword_spans[k].start.line = l
                   /\ field.keyword_spans[k].start.column
                         = syntax_info[l][j].start
                   /\ field.keyword_spans[k].end.column
                         = syntax_info[l][j].end

(* ---------------------------------------------------------------------- *)
(* C9                                                                      *)
(* ---------------------------------------------------------------------- *)

RECURSIVE OnlyIdents(_)
RECURSIVE IdentsOfArgs(_)
RECURSIVE IdentsOfSegments(_)

\* the type is a path whose generic arguments are such types again
OnlyIdents(ty) ==
    /\ ty.node = "Path"
    /\ \A i \in DOMAIN ty.path.segments :
          ty.path.segments[i].arguments.kind = "AngleBracketed"
             => \A j \in DOMAIN ty.path.segments[i].arguments.args :
                   LET arg == ty.path.segments[i].arguments.args[j]
                   IN  arg.kind = "Type" /\ OnlyIdents(arg.ty)

IdentsOfArgs(args) ==
    IF args = <<>>
    THEN <<>>
    ELSE IdentsOfSegments(Head(args).ty.path.segments)
            \o IdentsOfArgs(Tail(args))

IdentsOfSegments(segments) ==
    IF segments = <<>>
    THEN <<>>
    ELSE <<Head(segments).ident>>
            \o (IF Head(segments).arguments.kind = "AngleBracketed"
                THEN IdentsOfArgs(Head(segments).arguments.args)
                ELSE <<>>)
            \o IdentsOfSegments(Tail(segments))

\* the identifier occurrences of a type made only of identifiers
TypeIdents(ty) == IdentsOfSegments(ty.path.segments)

OnlyKeywordType(f) ==
    /\ f.keyword_spans = <<>>
    /\ f.args.kind # "Named"
    /\ PopulatedTokens(f) = <<>>
    /\ OnlyIdents(f.ty)
    /\ \A i \in DOMAIN TypeIdents(f.ty) :
          TypeIdents(f.ty)[i].name \in KeywordNames

\* C9: for a field without attribute or keyword span whose type is made of
\* keyword identifiers only, the returned table holds one Keyword highlight
\* per identifier occurrence, on its line and column range, and nothing
\* else.
C9_KeywordTypeOnly ==
    (Done /\ OnlyKeywordType(field))
    => LET ids == TypeIdents(field.ty)
       IN  /\ Total(syntax_info) = Len(ids)
           /\ \A i \in DOMAIN ids :
                 CountAtSpan(syntax_info, ids[i].span, "Keyword")
                    = Cardinality({j \in DOMAIN ids :
                                      ids[j].span = ids[i].span})

\* Box<Vec<u16>> was highlighted: three Keyword highlights on two lines
C9_Witness ==
    /\ Done
    /\ OnlyKeywordType(field)
    /\ Len(TypeIdents(field.ty)) = 3
    /\ Total(syntax_info) = 3
    /\ CountAt(syntax_info, 2, 40, 43, "Keyword") = 1

(* ---------------------------------------------------------------------- *)
(* C10                                                                     *)
(* ---------------------------------------------------------------------- *)

\* C10: every line that is a key of the returned table has at least one
\* highlight; a skipped literal, a single-line Verbatim literal included,
\* leaves no entry for its line.
C10_NoEmptyLine ==
    Done => \A l \in DOMAIN syntax_info : syntax_info[l] # <<>>

====
